---- MODULE Spec2Model ----
(***************************************************************************)
(* MSGA-server: REST backend for moderation of reported works/profiles.   *)
(* State: the named collections of the document store (utils/db.js), the  *)
(* tokens that login has issued, and the last request with its response.  *)
(* One action per route handler, the authentication middleware included.  *)
(*                                                                         *)
(* Request bodies are well-typed JSON as the API documents them: a field  *)
(* is either absent or carries a value of its documented type.            *)
(***************************************************************************)
EXTENDS Integers, Sequences, FiniteSets, TLC

VARIABLES db, tokens, expired, nextJti, resp, approvedByAdmin, router,
          calls, clock, notifier, inbox

\* calls: the sendToAllWebhooks calls made so far, with their deliveries;
\* clock: the value the next new Date() returns; notifier: the revision of
\* utils/webhookNotifier in use.
notifierVars == <<calls, clock, notifier>>

\* inbox: the requests the server has received, each with the database as it
\* was when the request arrived and, once its handler has run, the status
\* code it was answered with (0 before).
vars == <<db, tokens, expired, nextJti, resp, approvedByAdmin, router, notifierVars, inbox>>

\* ------------------------------------------------------------------ bounds
MaxUserId == 3
MaxTokens == 2
MaxRequests == 2
MaxReports == 2

MaxNotifies == 1

\* requests received and not yet handled, at most
MaxPending == 2

\* ------------------------------------------------- JavaScript object helpers
EmptyObject == <<>>

Keys(o) == DOMAIN o

Values(o) == {o[k] : k \in DOMAIN o}

Put(o, k, v) == [j \in (DOMAIN o) \cup {k} |-> IF j = k THEN v ELSE o[j]]

Delete(o, k) == [j \in (DOMAIN o) \ {k} |-> o[j]]

Has(o, k) == k \in DOMAIN o

\* Object.entries/Object.values enumerate integer keys in ascending order;
\* Array.prototype.find returns the first match.
FirstKey(S) == CHOOSE k \in S : \A j \in S : k <= j

MaxKey(S) == CHOOSE k \in S : \A j \in S : k >= j

\* Object.assign(target, source)
Assign(target, source) == [k \in (DOMAIN target) \cup (DOMAIN source) |->
                             IF k \in DOMAIN source THEN source[k] ELSE target[k]]

\* ------------------------------------------------------------- persistence
\* a read served from the database as it was when a request still waiting
\* for its handler arrived
getDatabase_atArrival(name) ==
  IF \E r \in inbox : r.code = 0
  THEN (CHOOSE r \in inbox : r.code = 0).seen[name]
  ELSE db[name]

getDatabase(name) == db[name]

setDatabase(name, data) == [db EXCEPT ![name] = data]

\* ---------------------------------------------------------------- config
\* regexPatterns.shProfileURLPattern, on the URL strings the model uses
ProfileURLs == {"https://www.scribblehub.com/profile/1/alice",
                "https://www.scribblehub.com/profile/2/bob"}

BadURL == "http://example.com/profile/1/alice"

shProfileURLPattern(url) == url \in ProfileURLs \cup {"https://www.scribblehub.com/profile/9/root",
                                                     "https://www.scribblehub.com/profile/8/carol"}

\* ------------------------------------------------------------ credentials
Passwords == {"pw1", "pw2"}

\* bcrypt.hashSync / bcrypt.compareSync
hashSync(password) == <<"bcrypt", password>>

compareSync(password, hash) == hash = hashSync(password)

\* ------------------------------------------------------------------ tokens
NoTok == [id |-> -1, username |-> "", role |-> "", jti |-> 0]

NoAuth == [kind |-> "none", tok |-> NoTok]

\* Authorization header values a client can send: absent, not of the form
\* "Bearer <token>", a token that jwt.verify rejects for its signature, or a
\* token that login issued.
AuthHeaders == {NoAuth, [kind |-> "malformed", tok |-> NoTok], [kind |-> "forged", tok |-> NoTok]}
                 \cup {[kind |-> "bearer", tok |-> t] : t \in tokens}

\* jwt.verify(token, secret): signature and expiry
jwtVerify(auth) == auth.kind = "bearer" /\ auth.tok.jti \notin expired

\* verifyToken that also wants the token's user stored and approved
verifyToken_knownUser(auth) ==
  IF auth.kind = "none" THEN [next |-> FALSE, code |-> 401, error |-> "noToken", user |-> NoTok]
  ELSE IF auth.kind = "malformed" THEN [next |-> FALSE, code |-> 400, error |-> "invalidTokenFormat", user |-> NoTok]
  ELSE IF ~jwtVerify(auth) THEN [next |-> FALSE, code |-> 403, error |-> "invalidToken", user |-> NoTok]
  ELSE IF Has(db.blockedTokens, auth.tok.jti) THEN [next |-> FALSE, code |-> 403, error |-> "tokenRevoked", user |-> NoTok]
  ELSE IF ~Has(db.users, auth.tok.id) \/ ~db.users[auth.tok.id].approved
    THEN [next |-> FALSE, code |-> 403, error |-> "invalidToken", user |-> NoTok]
  ELSE [next |-> TRUE, code |-> 0, error |-> "", user |-> auth.tok]

\* verifyToken without the lookup in blockedTokens
verifyToken_noRevocation(auth) ==
  IF auth.kind = "none" THEN [next |-> FALSE, code |-> 401, error |-> "noToken", user |-> NoTok]
  ELSE IF auth.kind = "malformed" THEN [next |-> FALSE, code |-> 400, error |-> "invalidTokenFormat", user |-> NoTok]
  ELSE IF ~jwtVerify(auth) THEN [next |-> FALSE, code |-> 403, error |-> "invalidToken", user |-> NoTok]
  ELSE [next |-> TRUE, code |-> 0, error |-> "", user |-> auth.tok]

\* middleware/verifyToken: outcome is "next" with req.user, or a rejection
verifyToken(auth) ==
  IF auth.kind = "none" THEN [next |-> FALSE, code |-> 401, error |-> "noToken", user |-> NoTok]
  ELSE IF auth.kind = "malformed" THEN [next |-> FALSE, code |-> 400, error |-> "invalidTokenFormat", user |-> NoTok]
  ELSE IF ~jwtVerify(auth) THEN [next |-> FALSE, code |-> 403, error |-> "invalidToken", user |-> NoTok]
  ELSE IF Has(getDatabase("blockedTokens"), auth.tok.jti) THEN [next |-> FALSE, code |-> 403, error |-> "tokenRevoked", user |-> NoTok]
  ELSE [next |-> TRUE, code |-> 0, error |-> "", user |-> auth.tok]

\* optionalVerifyToken without the lookup in blockedTokens
optionalVerifyToken_noRevocation(auth) ==
  IF auth.kind \in {"none", "malformed"} \/ ~jwtVerify(auth)
  THEN [next |-> TRUE, code |-> 0, error |-> "", user |-> NoTok]
  ELSE [next |-> TRUE, code |-> 0, error |-> "", user |-> auth.tok]

\* middleware/optionalVerifyToken: every path ends in next(); req.user is set
\* on the last one only
optionalVerifyToken(auth) ==
  IF auth.kind = "none" THEN [next |-> TRUE, code |-> 0, error |-> "", user |-> NoTok]
  ELSE IF auth.kind = "malformed" THEN [next |-> TRUE, code |-> 0, error |-> "", user |-> NoTok]
  ELSE IF ~jwtVerify(auth) THEN [next |-> TRUE, code |-> 0, error |-> "", user |-> NoTok]
  ELSE IF Has(getDatabase("blockedTokens"), auth.tok.jti) THEN [next |-> TRUE, code |-> 0, error |-> "", user |-> NoTok]
  ELSE [next |-> TRUE, code |-> 0, error |-> "", user |-> auth.tok]

\* ---------------------------------------------------------------- responses
NoBody == <<>>

NoReport == [id |-> -1, url |-> "", status |-> "", reporter |-> "", reason |-> "", approved |-> FALSE]

Reply(op, auth, id, body, code, error) ==
  [op |-> op, auth |-> auth, id |-> id, body |-> body, code |-> code,
   error |-> error, token |-> NoTok, event |-> "none", old |-> NoReport]

\* A request stopped by verifyToken: the handler does not run.
Rejected(op, auth, id, body) ==
  /\ ~verifyToken(auth).next
  /\ resp' = Reply(op, auth, id, body, verifyToken(auth).code, verifyToken(auth).error)
  /\ UNCHANGED <<db, tokens, expired, nextJti, approvedByAdmin, router, notifierVars>>

\* A request passes through optionalVerifyToken: resp records whether next
\* was called (code 0) or a response was sent, and the req.user attached.
OptionalAuth(auth) ==
  LET out == optionalVerifyToken(auth)
  IN /\ resp' = [Reply("optionalAuth", auth, -1, NoBody, out.code, out.error)
                   EXCEPT !.token = out.user,
                          !.event = IF out.next THEN "next" ELSE "none"]
     /\ UNCHANGED <<db, tokens, expired, nextJti, approvedByAdmin, router, notifierVars>>

\* ------------------------------------------------------------ routes/auth
\* users.find(u => u.username === username)
UserByName(users, username) == {k \in Keys(users) : users[k].username = username}

Login(username, password) ==
  LET users == getDatabase("users")
      body == [username |-> username, password |-> password]
      found == UserByName(users, username)
  IN IF found = {} THEN
       /\ resp' = Reply("login", NoAuth, -1, body, 404, "userNotFound")
       /\ UNCHANGED <<db, tokens, expired, nextJti, approvedByAdmin, router, notifierVars>>
     ELSE LET userId == FirstKey(found)
              user == users[userId]
          IN IF ~compareSync(password, user.password) THEN
               /\ resp' = Reply("login", NoAuth, -1, body, 401, "wrongPassword")
               /\ UNCHANGED <<db, tokens, expired, nextJti, approvedByAdmin, router, notifierVars>>
             ELSE IF ~user.approved THEN
               /\ resp' = Reply("login", NoAuth, -1, body, 403, "accountNotApproved")
               /\ UNCHANGED <<db, tokens, expired, nextJti, approvedByAdmin, router, notifierVars>>
             ELSE
               /\ nextJti <= MaxTokens
               /\ LET token == [id |-> userId, username |-> user.username,
                                role |-> user.role, jti |-> nextJti]
                  IN /\ tokens' = tokens \cup {token}
                     /\ resp' = [Reply("login", NoAuth, -1, body, 200, "") EXCEPT !.token = token]
               /\ nextJti' = nextJti + 1
               /\ UNCHANGED <<db, expired, approvedByAdmin, router, notifierVars>>

\* userExists comparing the profile URL only
userExists_urlOnly(users, username, shProfileURL) ==
  \E u \in Values(users) : u.shProfileURL = shProfileURL

\* userExists comparing the username only
userExists_usernameOnly(users, username, shProfileURL) ==
  \E u \in Values(users) : u.username = username

\* Object.values(users).find(u => u.username === username || u.shProfileURL === shProfileURL)
userExists(users, username, shProfileURL) ==
  \E u \in Values(users) : u.username = username \/ u.shProfileURL = shProfileURL

\* the record register stores, created already approved
newUser_approved(username, shProfileURL, password) ==
  [username |-> username, shProfileURL |-> shProfileURL,
   password |-> hashSync(password), role |-> "user", approved |-> TRUE]

\* the record register stores
newUser(username, shProfileURL, password) ==
  [username |-> username, shProfileURL |-> shProfileURL,
   password |-> hashSync(password), role |-> "user", approved |-> FALSE]

\* existingIds.length ? Math.max(...existingIds) + 1 : 0
newUserId(users) == IF Keys(users) # {} THEN MaxKey(Keys(users)) + 1 ELSE 0

Register(username, shProfileURL, password) ==
  LET users == getDatabase("users")
      body == [username |-> username, shProfileURL |-> shProfileURL, password |-> password]
  IN IF username = "" \/ shProfileURL = "" \/ password = "" THEN
       /\ resp' = Reply("register", NoAuth, -1, body, 400, "missingFields")
       /\ UNCHANGED <<db, tokens, expired, nextJti, approvedByAdmin, router, notifierVars>>
     ELSE IF ~shProfileURLPattern(shProfileURL) THEN
       /\ resp' = Reply("register", NoAuth, -1, body, 400, "invalidSHProfile")
       /\ UNCHANGED <<db, tokens, expired, nextJti, approvedByAdmin, router, notifierVars>>
     ELSE IF userExists(users, username, shProfileURL) THEN
       /\ resp' = Reply("register", NoAuth, -1, body, 409, "userExists")
       /\ UNCHANGED <<db, tokens, expired, nextJti, approvedByAdmin, router, notifierVars>>
     ELSE
       /\ newUserId(users) <= MaxUserId
       /\ db' = setDatabase("users", Put(users, newUserId(users),
                  newUser(username, shProfileURL, password)))
       /\ resp' = Reply("register", NoAuth, newUserId(users), body, 201, "")
       /\ approvedByAdmin' = approvedByAdmin \ {newUserId(users)}
       /\ UNCHANGED <<tokens, expired, nextJti, router, notifierVars>>

Logout(auth) ==
  \/ Rejected("logout", auth, -1, NoBody)
  \/ /\ verifyToken(auth).next
     /\ LET jti == verifyToken(auth).user.jti
            blockedTokens == getDatabase("blockedTokens")
        IN db' = setDatabase("blockedTokens", Put(blockedTokens, jti, [blocked |-> TRUE]))
     /\ resp' = Reply("logout", auth, -1, NoBody, 200, "")
     /\ UNCHANGED <<tokens, expired, nextJti, approvedByAdmin, router, notifierVars>>

\* ------------------------------------------------------ routes/admin/users
GetUsers(auth) ==
  \/ Rejected("getUsers", auth, -1, NoBody)
  \/ /\ verifyToken(auth).next
     /\ LET user == verifyToken(auth).user
        IN IF user.role # "admin"
           THEN resp' = Reply("getUsers", auth, -1, NoBody, 403, "onlyAdminsCanAccess")
           ELSE resp' = Reply("getUsers", auth, -1, NoBody, 200, "")
     /\ UNCHANGED <<db, tokens, expired, nextJti, approvedByAdmin, router, notifierVars>>

\* PUT /users/:id with body {approved}
UpdateUser(auth, id, body) ==
  \/ Rejected("updateUser", auth, id, body)
  \/ /\ verifyToken(auth).next
     /\ LET reqUser == verifyToken(auth).user
            users == getDatabase("users")
        IN IF reqUser.role # "admin" THEN
             /\ resp' = Reply("updateUser", auth, id, body, 403, "onlyAdminsCanUpdateUsers")
             /\ UNCHANGED <<db, approvedByAdmin>>
           ELSE IF ~Has(users, id) THEN
             /\ resp' = Reply("updateUser", auth, id, body, 404, "userNotFound")
             /\ UNCHANGED <<db, approvedByAdmin>>
           ELSE IF ~Has(body, "approved") THEN
             /\ resp' = Reply("updateUser", auth, id, body, 400, "approvalRequired")
             /\ UNCHANGED <<db, approvedByAdmin>>
           ELSE
             /\ db' = setDatabase("users", [users EXCEPT ![id].approved = body.approved])
             /\ resp' = Reply("updateUser", auth, id, body, 200, "")
             /\ approvedByAdmin' = IF body.approved THEN approvedByAdmin \cup {id}
                                   ELSE approvedByAdmin
     /\ UNCHANGED <<tokens, expired, nextJti, router, notifierVars>>

\* user.role === 'admin', never true
isAdmin_never(user) == FALSE

\* user.role === 'admin'
isAdmin(user) == user.role = "admin"

\* matchesRequest without the comparison of userId
matchesRequest_anyUser(reqData, userId) == reqData.status = "pending"

\* the loop over Object.entries(deletionRequests) with its break: the first
\* pending request of the deleted user, if any
matchesRequest(reqData, userId) == reqData.userId = userId /\ reqData.status = "pending"

requestToResolve(deletionRequests, userId) ==
  {k \in Keys(deletionRequests) : matchesRequest(deletionRequests[k], userId)}

resolveRequest(deletionRequests, userId, resolvedBy) ==
  LET matching == requestToResolve(deletionRequests, userId)
  IN IF matching = {} THEN deletionRequests
     ELSE [deletionRequests EXCEPT ![FirstKey(matching)] =
             [@ EXCEPT !.status = "resolved", !.resolvedBy = resolvedBy]]

DeleteUser(auth, userId) ==
  \/ Rejected("deleteUser", auth, userId, NoBody)
  \/ /\ verifyToken(auth).next
     /\ LET reqUser == verifyToken(auth).user
            users == getDatabase("users")
            deletionRequests == getDatabase("deletionRequests")
        IN IF ~Has(users, userId) THEN
             /\ resp' = Reply("deleteUser", auth, userId, NoBody, 404, "userNotFound")
             /\ UNCHANGED <<db, approvedByAdmin>>
           ELSE IF reqUser.id = userId THEN
             /\ resp' = Reply("deleteUser", auth, userId, NoBody, 400, "adminCannotDeleteSelf")
             /\ UNCHANGED <<db, approvedByAdmin>>
           ELSE IF isAdmin(users[userId]) THEN
             /\ resp' = Reply("deleteUser", auth, userId, NoBody, 403, "cannotDeleteOtherAdmins")
             /\ UNCHANGED <<db, approvedByAdmin>>
           ELSE IF reqUser.role # "admin" THEN
             /\ resp' = Reply("deleteUser", auth, userId, NoBody, 403, "onlyAdminsCanDelete")
             /\ UNCHANGED <<db, approvedByAdmin>>
           ELSE
             /\ db' = [db EXCEPT !["users"] = Delete(users, userId),
                                 !["deletionRequests"] =
                                    resolveRequest(deletionRequests, userId, reqUser.id)]
             /\ resp' = Reply("deleteUser", auth, userId, NoBody, 200, "")
             /\ approvedByAdmin' = approvedByAdmin \ {userId}
     /\ UNCHANGED <<tokens, expired, nextJti, router, notifierVars>>

GetDeleteRequests(auth) ==
  \/ Rejected("getDeleteRequests", auth, -1, NoBody)
  \/ /\ verifyToken(auth).next
     /\ LET user == verifyToken(auth).user
        IN IF user.role # "admin"
           THEN resp' = Reply("getDeleteRequests", auth, -1, NoBody, 403, "onlyAdminsCanAccess")
           ELSE resp' = Reply("getDeleteRequests", auth, -1, NoBody, 200, "")
     /\ UNCHANGED <<db, tokens, expired, nextJti, approvedByAdmin, router, notifierVars>>

\* ------------------------------------------------------ routes/user/profile
GetProfile(auth) ==
  \/ Rejected("getProfile", auth, -1, NoBody)
  \/ /\ verifyToken(auth).next
     /\ LET reqUser == verifyToken(auth).user
            users == getDatabase("users")
        IN IF ~Has(users, reqUser.id)
           THEN resp' = Reply("getProfile", auth, -1, NoBody, 404, "userNotFound")
           ELSE resp' = Reply("getProfile", auth, -1, NoBody, 200, "")
     /\ UNCHANGED <<db, tokens, expired, nextJti, approvedByAdmin, router, notifierVars>>

ChangePassword(auth, oldPassword, newPassword) ==
  LET body == [oldPassword |-> oldPassword, newPassword |-> newPassword]
  IN \/ Rejected("changePassword", auth, -1, body)
     \/ /\ verifyToken(auth).next
        /\ LET reqUser == verifyToken(auth).user
               users == getDatabase("users")
           IN IF oldPassword = "" \/ newPassword = "" THEN
                /\ resp' = Reply("changePassword", auth, -1, body, 400, "missingFields")
                /\ UNCHANGED db
              ELSE IF ~Has(users, reqUser.id) THEN
                /\ resp' = Reply("changePassword", auth, -1, body, 404, "userNotFound")
                /\ UNCHANGED db
              ELSE IF ~compareSync(oldPassword, users[reqUser.id].password) THEN
                /\ resp' = Reply("changePassword", auth, -1, body, 403, "wrongPassword")
                /\ UNCHANGED db
              ELSE
                /\ db' = setDatabase("users",
                           [users EXCEPT ![reqUser.id].password = hashSync(newPassword)])
                /\ resp' = Reply("changePassword", auth, -1, body, 200, "")
        /\ UNCHANGED <<tokens, expired, nextJti, approvedByAdmin, router, notifierVars>>

\* request.userId === req.user.id && request.status === 'pending'
hasPendingRequest(deletionRequests, userId) ==
  \E r \in Values(deletionRequests) : r.userId = userId /\ r.status = "pending"

\* Object.keys(deletionRequests).length + 1
newRequestId(deletionRequests) == Cardinality(Keys(deletionRequests)) + 1

DeleteRequest(auth, reason) ==
  LET body == [reason |-> reason]
  IN \/ Rejected("deleteRequest", auth, -1, body)
     \/ /\ verifyToken(auth).next
        /\ LET reqUser == verifyToken(auth).user
               users == getDatabase("users")
               deletionRequests == getDatabase("deletionRequests")
           IN IF reason = "" THEN
                /\ resp' = Reply("deleteRequest", auth, -1, body, 400, "missingFields")
                /\ UNCHANGED db
              ELSE IF ~Has(users, reqUser.id) THEN
                /\ resp' = Reply("deleteRequest", auth, -1, body, 404, "userNotFound")
                /\ UNCHANGED db
              ELSE IF hasPendingRequest(deletionRequests, reqUser.id) THEN
                /\ resp' = Reply("deleteRequest", auth, -1, body, 409, "deletionRequestExists")
                /\ UNCHANGED db
              ELSE
                /\ newRequestId(deletionRequests) <= MaxRequests
                /\ db' = setDatabase("deletionRequests",
                           Put(deletionRequests, newRequestId(deletionRequests),
                               [userId |-> reqUser.id, username |-> users[reqUser.id].username,
                                reason |-> reason, status |-> "pending", resolvedBy |-> -1]))
                /\ resp' = Reply("deleteRequest", auth, -1, body, 200, "")
        /\ UNCHANGED <<tokens, expired, nextJti, approvedByAdmin, router, notifierVars>>

\* The clock passes the exp claim of an issued token.
Expire(t) ==
  /\ t \in tokens
  /\ t.jti \notin expired
  /\ expired' = expired \cup {t.jti}
  /\ resp' = Reply("expire", [kind |-> "bearer", tok |-> t], -1, NoBody, 0, "")
  /\ UNCHANGED <<db, tokens, nextJti, approvedByAdmin, router, notifierVars>>

\* --------------------------------------------------- utils/webhookNotifier
\* Two revisions of sendToAllWebhooks are in the tree.  Both read the
\* webhooks collection, start one fetch per registered webhook and catch
\* every delivery failure.  "collect" notes the ids that got a 2xx and
\* writes lastUsed once all deliveries have settled; "each" writes lastUsed
\* as each delivery succeeds.  getDatabase returns the stored collection
\* object, so the notifier and the webhook routes work on the same object.
Revisions == {"collect", "each"}

\* what a fetch can end with: a 2xx response, another response, a rejection
Outcomes == {"ok", "http_error", "transport_error"}

\* Object.values(webhooks).map(async webhook => ...): one delivery per
\* registered webhook, to the url it has when the call is made
deliveriesOf(webhooks) == {[id |-> w.id, url |-> w.url] : w \in Values(webhooks)}

\* a call in progress: its event type, now, the collection as the call read
\* it, the deliveries awaited, those that got a 2xx (updatedTimestamps), the
\* failures logged, and whether the returned promise was rejected
newCall(eventType, webhooks, now) ==
  [event |-> eventType, now |-> now, read |-> webhooks,
   pending |-> deliveriesOf(webhooks),
   ok |-> {}, logged |-> {}, rejected |-> FALSE]

\* The synchronous part of sendToAllWebhooks, run inside the handler that
\* calls it.  With no webhook registered there is nothing to await and
\* nothing changes.
sendToAllWebhooks(eventType) ==
  LET webhooks == getDatabase("webhooks")
  IN IF Values(webhooks) = {} THEN UNCHANGED <<calls, clock>>
     ELSE /\ Len(calls) < MaxNotifies
          /\ IF notifier = "collect"
             THEN /\ calls' = Append(calls, newCall(eventType, webhooks, clock))
                  /\ clock' = clock + 1
             ELSE /\ calls' = Append(calls, newCall(eventType, webhooks, 0))
                  /\ clock' = clock

\* a catch clause that lets transport errors through
caught_httpOnly(outcome) == outcome = "http_error"

\* try { ... } catch (error) { logger.error('Webhook failed', ...) }
caught(outcome) == TRUE

\* the ids whose lastUsed the call writes: Object.entries(updatedTimestamps)
stamped(call) == {d.id : d \in call.ok}

\* for (const [id, timestamp] of ...) if (webhooks[id]) webhooks[id].lastUsed = timestamp
withTimestamps(webhooks, ids, timestamp) ==
  [k \in Keys(webhooks) |->
     IF k \in ids THEN [webhooks[k] EXCEPT !.lastUsed = timestamp] ELSE webhooks[k]]

\* a call whose webhooks constant is a copy taken when the call began
held_copy(call) == call.read

\* what the call's webhooks constant holds after the await: the object that
\* getDatabase returned, which is the stored collection with every change
\* the webhook routes have made to it since
held(call) == getDatabase("webhooks")

\* One delivery of call c settles with the given outcome; the code after the
\* await runs, and when it was the last delivery awaited the code after
\* Promise.all runs in the same turn of the event loop.
Settle(c, d, outcome) ==
  LET call == calls[c]
      webhooks == held(call)
      rest == call.pending \ {d}
  IN /\ c \in 1 .. Len(calls)
     /\ d \in call.pending
     /\ IF outcome # "ok" /\ ~caught(outcome) THEN
          /\ calls' = [calls EXCEPT ![c].pending = rest, ![c].rejected = TRUE]
          /\ UNCHANGED <<db, clock>>
        ELSE IF notifier = "each" THEN
          IF outcome = "ok" /\ Has(webhooks, d.id) THEN
            /\ calls' = [calls EXCEPT ![c].pending = rest, ![c].ok = @ \cup {d}]
            /\ db' = setDatabase("webhooks",
                       withTimestamps(webhooks, stamped([call EXCEPT !.ok = {d}]), clock))
            /\ clock' = clock + 1
          ELSE
            \* a failed fetch, or webhooks[webhook.id] is undefined: caught
            /\ calls' = [calls EXCEPT ![c].pending = rest, ![c].logged = @ \cup {d}]
            /\ UNCHANGED <<db, clock>>
        ELSE
          LET after == IF outcome = "ok"
                       THEN [call EXCEPT !.pending = rest, !.ok = @ \cup {d}]
                       ELSE [call EXCEPT !.pending = rest, !.logged = @ \cup {d}]
          IN /\ calls' = [calls EXCEPT ![c] = after]
             /\ IF rest = {} /\ ~call.rejected
                THEN db' = setDatabase("webhooks",
                             withTimestamps(webhooks, stamped(after), call.now))
                ELSE UNCHANGED db
             /\ UNCHANGED clock
     /\ UNCHANGED <<tokens, expired, nextJti, resp, approvedByAdmin, router, notifier, inbox>>

\* some delivery in flight settles
Delivery ==
  \E c \in 1 .. Len(calls) : \E d \in calls[c].pending, o \in Outcomes : Settle(c, d, o)

\* the handler's call of sendToAllWebhooks, if it makes one
Notifying(eventType) ==
  IF eventType = "none" THEN UNCHANGED <<calls, clock>> ELSE sendToAllWebhooks(eventType)

\* ------------------------------------------- routes/reports: works, profiles
\* The two routers have the same routes; name is "works" or "profiles".
\* A stored report is modelled by the fields id, url, status, reporter,
\* reason and approved; title, proofs, additionalInfo and dateReported are
\* free-form fields handled like reason.
WorkURLs == {"https://www.scribblehub.com/series/1", "https://www.scribblehub.com/series/2"}

BadWorkURL == "http://example.com/series/1"

\* regexPatterns.shWorkURLPattern, on the URL strings the model uses
shWorkURLPattern(url) == url \in WorkURLs

ReportURLs(name) == IF name = "works" THEN WorkURLs ELSE ProfileURLs

AnyURL(name) == CHOOSE u \in ReportURLs(name) : TRUE

BadReportURL(name) == IF name = "works" THEN BadWorkURL ELSE BadURL

urlPattern(name, url) == IF name = "works" THEN shWorkURLPattern(url) ELSE shProfileURLPattern(url)

Padded(url) == " " \o url \o " "

\* String.prototype.trim, on the strings the model uses: a URL with blanks
\* around it, a blank string, or a string without blanks at its ends
trim(str) ==
  IF str = "  " THEN ""
  ELSE IF \E u \in WorkURLs \cup ProfileURLs : str = Padded(u)
       THEN CHOOSE u \in WorkURLs \cup ProfileURLs : str = Padded(u)
       ELSE str

\* a status list that does not let a report return to pending_review
validStatuses_noReturn(name) ==
  IF name = "works"
  THEN {"in_progress", "confirmed", "taken_down", "original"}
  ELSE {"in_progress", "confirmed_violator", "false_positive"}

validStatuses(name) ==
  IF name = "works"
  THEN {"pending_review", "in_progress", "confirmed", "taken_down", "original"}
  ELSE {"pending_review", "in_progress", "confirmed_violator", "false_positive"}

\* errorMessages keys the two routers use
urlRequired(name) == IF name = "works" THEN "workUrlRequired" ELSE "profileUrlRequired"

invalidUrl(name) == IF name = "works" THEN "invalidSHWorkUrl" ELSE "invalidSHProfileUrl"

reportExists(name) == IF name = "works" THEN "workExists" ELSE "profileExists"

reportNotFound(name) == IF name = "works" THEN "workNotFound" ELSE "profileNotFound"

\* The profiles router calls sendToAllWebhooks after each change; the works
\* router does not call it.  With no webhook registered the call reads and
\* writes back an empty webhooks collection.
notifies(name) == name = "profiles"

event(name, kind) == IF notifies(name) THEN "profile_" \o kind ELSE "none"

\* old is the record as the handler found it (the handlers log oldStatus and
\* the changed fields)
Notified(r, ev, old) == [r EXCEPT !.event = ev, !.old = old]

\* POST / is mounted without an authentication middleware: req.user is
\* never set when the handler runs.
postReqUser(auth) == NoTok

\* the next id taken from the number of records
nextIdNum_count(reports) == Cardinality(Keys(reports)) + 1

\* existingIds.length > 0 ? Math.max(...existingIds) + 1 : 1
nextIdNum(reports) == IF Keys(reports) # {} THEN MaxKey(Keys(reports)) + 1 ELSE 1

\* isDuplicate without the comparison
isDuplicate_never(reports, submittedUrl) == FALSE

\* Object.values(reports).some(r => r.url.trim() === submittedUrl)
isDuplicate(reports, submittedUrl) == \E r \in Values(reports) : trim(r.url) = submittedUrl

\* req.body.reporter || (req.user ? req.user.username : 'Anonymous')
reporterOf(body, reqUser) ==
  IF Has(body, "reporter") /\ body.reporter # "" THEN body.reporter
  ELSE IF reqUser # NoTok THEN reqUser.username ELSE "Anonymous"

Create(name, auth, body) ==
  LET reports == getDatabase(name)
      reqUser == postReqUser(auth)
      submittedUrl == IF Has(body, "url") THEN trim(body.url) ELSE ""
  IN /\ router = name
     /\ IF submittedUrl = "" THEN
          /\ resp' = Reply("create", auth, -1, body, 400, urlRequired(name))
          /\ UNCHANGED db
        ELSE IF ~urlPattern(name, submittedUrl) THEN
          /\ resp' = Reply("create", auth, -1, body, 400, invalidUrl(name))
          /\ UNCHANGED db
        ELSE IF isDuplicate(reports, submittedUrl) THEN
          /\ resp' = Reply("create", auth, -1, body, 409, reportExists(name))
          /\ UNCHANGED db
        ELSE
          /\ Cardinality(Keys(reports)) < MaxReports
          /\ nextIdNum(reports) <= MaxReports + 1
          /\ db' = setDatabase(name, Put(reports, nextIdNum(reports),
                     [id |-> nextIdNum(reports), url |-> submittedUrl,
                      status |-> "pending_review",
                      reporter |-> reporterOf(body, reqUser),
                      reason |-> IF Has(body, "reason") THEN body.reason ELSE "",
                      approved |-> FALSE]))
          /\ resp' = Notified(Reply("create", auth, nextIdNum(reports), body, 201, ""),
                              event(name, "created"), NoReport)
     /\ UNCHANGED <<tokens, expired, nextJti, approvedByAdmin, router, notifier>>
     /\ Notifying(resp'.event)

\* GET /: the works router approves every record with approved === false,
\* the profiles router only those whose status is not pending_review
autoApproves(name, r) ==
  IF name = "works" THEN r.approved = FALSE
  ELSE r.approved = FALSE /\ r.status # "pending_review"

ListAll(name) ==
  LET reports == getDatabase(name)
  IN /\ router = name
     /\ db' = setDatabase(name, [k \in Keys(reports) |->
                IF autoApproves(name, reports[k]) THEN [reports[k] EXCEPT !.approved = TRUE]
                ELSE reports[k]])
     /\ resp' = Reply("listAll", NoAuth, -1, NoBody, 200, "")
     /\ UNCHANGED <<tokens, expired, nextJti, approvedByAdmin, router, notifierVars>>

\* the status update without the forced approval
withStatus_only(report, status) == [report EXCEPT !.status = status]

\* reports[id].status = status; if (reports[id].approved === false) reports[id].approved = true
withStatus(report, status) ==
  [report EXCEPT !.status = status, !.approved = IF @ = FALSE THEN TRUE ELSE @]

UpdateStatus(name, auth, id, body) ==
  /\ router = name
  /\ \/ Rejected("updateStatus", auth, id, body)
     \/ /\ verifyToken(auth).next
        /\ LET reports == getDatabase(name)
           IN IF ~Has(body, "status") \/ body.status \notin validStatuses(name) THEN
                /\ resp' = Reply("updateStatus", auth, id, body, 400, "invalidStatus")
                /\ UNCHANGED db
              ELSE IF ~Has(reports, id) THEN
                /\ resp' = Reply("updateStatus", auth, id, body, 404, reportNotFound(name))
                /\ UNCHANGED db
              ELSE
                /\ db' = setDatabase(name, [reports EXCEPT ![id] = withStatus(@, body.status)])
                /\ resp' = Notified(Reply("updateStatus", auth, id, body, 200, ""),
                                    event(name, "updated"), reports[id])
        /\ UNCHANGED <<tokens, expired, nextJti, approvedByAdmin, router, notifier>>
        /\ Notifying(resp'.event)

\* an approval that leaves a report whose review has ended as it is
withApproval_openOnly(report) ==
  IF report.status \in {"pending_review", "in_progress"}
  THEN [report EXCEPT !.approved = TRUE, !.status = "in_progress"]
  ELSE report

\* reports[id].approved = true; reports[id].status = 'in_progress'
withApproval(report) == [report EXCEPT !.approved = TRUE, !.status = "in_progress"]

Approve(name, auth, id) ==
  /\ router = name
  /\ \/ Rejected("approve", auth, id, NoBody)
     \/ /\ verifyToken(auth).next
        /\ LET reports == getDatabase(name)
           IN IF ~Has(reports, id) THEN
                /\ resp' = Reply("approve", auth, id, NoBody, 404, reportNotFound(name))
                /\ UNCHANGED db
              ELSE
                /\ db' = setDatabase(name, [reports EXCEPT ![id] = withApproval(@)])
                /\ resp' = Notified(Reply("approve", auth, id, NoBody, 200, ""),
                                    event(name, "updated"), reports[id])
        /\ UNCHANGED <<tokens, expired, nextJti, approvedByAdmin, router, notifier>>
        /\ Notifying(resp'.event)

\* Object.entries(reports).find(([_, r]) => r.id === id): the keys whose
\* record carries the id; find takes the first
entryById(reports, id) == {k \in Keys(reports) : reports[k].id = id}

DeleteReport(name, auth, id) ==
  /\ router = name
  /\ \/ Rejected("delete", auth, id, NoBody)
     \/ /\ verifyToken(auth).next
        /\ LET reports == getDatabase(name)
               reqUser == verifyToken(auth).user
           IN IF reqUser.role # "admin" THEN
                /\ resp' = Reply("delete", auth, id, NoBody, 403, "onlyAdminsCanDelete")
                /\ UNCHANGED db
              ELSE IF entryById(reports, id) = {} THEN
                /\ resp' = Reply("delete", auth, id, NoBody, 404, reportNotFound(name))
                /\ UNCHANGED db
              ELSE
                /\ db' = setDatabase(name, Delete(reports, FirstKey(entryById(reports, id))))
                /\ resp' = Notified(Reply("delete", auth, id, NoBody, 200, ""),
                                    event(name, "deleted"),
                                    reports[FirstKey(entryById(reports, id))])
        /\ UNCHANGED <<tokens, expired, nextJti, approvedByAdmin, router, notifier>>
        /\ Notifying(resp'.event)

\* isEditingProtectedField, never true
isEditingProtectedField_never(body) == FALSE

\* a protected-field list that names status alone
isEditingProtectedField_statusOnly(body) == \E key \in Keys(body) : key = "status"

\* Object.keys(req.body).some(key => ['approved', 'status'].includes(key))
isEditingProtectedField(body) == \E key \in Keys(body) : key \in {"approved", "status"}

UpdateFields(name, auth, id, body) ==
  /\ router = name
  /\ \/ Rejected("updateFields", auth, id, body)
     \/ /\ verifyToken(auth).next
        /\ LET reports == getDatabase(name)
               reqUser == verifyToken(auth).user
           IN IF entryById(reports, id) = {} THEN
                /\ resp' = Reply("updateFields", auth, id, body, 404, reportNotFound(name))
                /\ UNCHANGED db
              ELSE IF reqUser.role # "admin" /\ isEditingProtectedField(body) THEN
                /\ resp' = Reply("updateFields", auth, id, body, 403, "unauthorizedFieldUpdate")
                /\ UNCHANGED db
              ELSE
                /\ LET dbKey == FirstKey(entryById(reports, id))
                   IN db' = setDatabase(name, [reports EXCEPT ![dbKey] = Assign(@, body)])
                /\ resp' = Notified(Reply("updateFields", auth, id, body, 200, ""),
                                    event(name, "updated"),
                                    reports[FirstKey(entryById(reports, id))])
        /\ UNCHANGED <<tokens, expired, nextJti, approvedByAdmin, router, notifier>>
        /\ Notifying(resp'.event)

\* ---------------------------------------------------------- routes/webhooks
WebhookURLs == {"https://discord.com/api/webhooks/1/a", "https://discord.com/api/webhooks/2/b"}

BadWebhookURL == "https://example.com/hook"

\* regexPatterns.discordWebhookPattern, on the URL strings the model uses
discordWebhookPattern(url) == url \in WebhookURLs

GetWebhooks(auth) ==
  \/ Rejected("getWebhooks", auth, -1, NoBody)
  \/ /\ verifyToken(auth).next
     /\ IF verifyToken(auth).user.role # "admin"
        THEN resp' = Reply("getWebhooks", auth, -1, NoBody, 403, "onlyAdminsCanAccess")
        ELSE resp' = Reply("getWebhooks", auth, -1, NoBody, 200, "")
     /\ UNCHANGED <<db, tokens, expired, nextJti, approvedByAdmin, router, notifierVars>>

\* Object.keys(webhooks).length + 1
newWebhookId(webhooks) == Cardinality(Keys(webhooks)) + 1

\* POST /webhooks with body {url, name}; a missing url is tested as the
\* string "undefined" and fails the pattern
CreateWebhook(auth, body) ==
  \/ Rejected("createWebhook", auth, -1, body)
  \/ /\ verifyToken(auth).next
     /\ LET reqUser == verifyToken(auth).user
            webhooks == getDatabase("webhooks")
            url == IF Has(body, "url") THEN body.url ELSE "undefined"
            newId == newWebhookId(webhooks)
        IN IF reqUser.role # "admin" THEN
             /\ resp' = Reply("createWebhook", auth, -1, body, 403, "onlyAdminsCanAccess")
             /\ UNCHANGED db
           ELSE IF ~discordWebhookPattern(url) THEN
             /\ resp' = Reply("createWebhook", auth, -1, body, 400, "invalidWebhookURL")
             /\ UNCHANGED db
           ELSE IF \E wh \in Values(webhooks) : wh.url = url THEN
             /\ resp' = Reply("createWebhook", auth, -1, body, 409, "webhookExists")
             /\ UNCHANGED db
           ELSE
             /\ db' = setDatabase("webhooks", Put(webhooks, newId,
                        [id |-> newId, url |-> url,
                         name |-> IF Has(body, "name") /\ body.name # "" THEN body.name
                                  ELSE "Webhook",
                         createdBy |-> reqUser.username, lastUsed |-> 0]))
             /\ resp' = Reply("createWebhook", auth, newId, body, 201, "")
     /\ UNCHANGED <<tokens, expired, nextJti, approvedByAdmin, router, notifierVars>>

DeleteWebhook(auth, id) ==
  \/ Rejected("deleteWebhook", auth, id, NoBody)
  \/ /\ verifyToken(auth).next
     /\ LET webhooks == getDatabase("webhooks")
        IN IF verifyToken(auth).user.role # "admin" THEN
             /\ resp' = Reply("deleteWebhook", auth, id, NoBody, 403, "onlyAdminsCanAccess")
             /\ UNCHANGED db
           ELSE IF ~Has(webhooks, id) THEN
             /\ resp' = Reply("deleteWebhook", auth, id, NoBody, 404, "webhookNotFound")
             /\ UNCHANGED db
           ELSE
             /\ db' = setDatabase("webhooks", Delete(webhooks, id))
             /\ resp' = Reply("deleteWebhook", auth, id, NoBody, 200, "")
     /\ UNCHANGED <<tokens, expired, nextJti, approvedByAdmin, router, notifierVars>>

\* ------------------------------------------------------------ initial state
\* initDB creates the collections; accounts with role admin are seeded in
\* the store (no route creates one).
SeedUsers == (0 :> [username |-> "root", shProfileURL |-> "https://www.scribblehub.com/profile/9/root",
                    password |-> hashSync("pw1"), role |-> "admin", approved |-> TRUE])
          @@ (1 :> [username |-> "carol", shProfileURL |-> "https://www.scribblehub.com/profile/8/carol",
                    password |-> hashSync("pw1"), role |-> "admin", approved |-> TRUE])

SeedIds == DOMAIN SeedUsers

InitDB == [users |-> SeedUsers, works |-> EmptyObject, profiles |-> EmptyObject,
           blockedTokens |-> EmptyObject, webhooks |-> EmptyObject,
           deletionRequests |-> EmptyObject]

\* No request is being answered.
Idle == Reply("idle", NoAuth, -1, NoBody, 0, "")

Init ==
  /\ db = InitDB
  /\ tokens = {}
  /\ expired = {}
  /\ nextJti = 1
  /\ resp = Idle
  /\ approvedByAdmin = {}
  /\ router = "users"
  /\ calls = <<>>
  /\ clock = 1
  /\ notifier = "collect"
  /\ inbox = {}

\* The response of the handled request is sent; handlers are synchronous, so
\* the server answers one request before it handles the next.
\* a handler that awaited its notify call: every call with a delivery in flight
awaited_all(cs) == {c \in 1 .. Len(cs) : cs[c].pending # {}}

\* the calls a handler waits for before it answers: sendToAllWebhooks(...) is
\* called without await and its promise is dropped
awaited(cs) == {}

Respond ==
  /\ resp # Idle
  /\ awaited(calls) = {}
  /\ resp' = Idle
  /\ UNCHANGED <<db, tokens, expired, nextJti, approvedByAdmin, router, notifierVars, inbox>>

ApprovalBodies == {[approved |-> TRUE], [approved |-> FALSE]}

\* ---------------------------------------------- Spec: the token life cycle
\* register, admin approval, login, logout, token expiry, and authenticated
\* requests on the user routes
AuthRequest ==
  \/ \E u \in {"root", "alice", "nobody"}, p \in Passwords : Login(u, p)
  \/ \E u \in {"alice"}, url \in {"https://www.scribblehub.com/profile/1/alice", BadURL} :
       Register(u, url, "pw1")
  \/ \E a \in AuthHeaders : Logout(a)
  \/ \E a \in AuthHeaders : GetUsers(a)
  \/ \E a \in AuthHeaders, id \in {2, 3}, b \in ApprovalBodies \cup {NoBody} : UpdateUser(a, id, b)
  \/ \E a \in AuthHeaders, id \in {0, 2} : DeleteUser(a, id)
  \/ \E a \in AuthHeaders : GetProfile(a)
  \/ \E a \in AuthHeaders : DeleteRequest(a, "bye")
  \/ \E t \in tokens : Expire(t)

Next ==
  \/ resp = Idle /\ AuthRequest /\ UNCHANGED inbox
  \/ Respond

Spec == Init /\ [][Next]_vars

\* ------------------------------------------------- SpecAccounts: user accounts
\* register, admin approval, user deletion and password change; the admin
\* root is logged in from the start
RootToken == [id |-> 0, username |-> "root", role |-> "admin", jti |-> 0]

RootAuth == [kind |-> "bearer", tok |-> RootToken]

InitAccounts ==
  /\ db = InitDB
  /\ tokens = {RootToken}
  /\ expired = {}
  /\ nextJti = 1
  /\ resp = Idle
  /\ approvedByAdmin = {}
  /\ router = "users"
  /\ calls = <<>>
  /\ clock = 1
  /\ notifier = "collect"
  /\ inbox = {}

Usernames == {"alice", "bob"}

UserIds == 0 .. MaxUserId + 1

AccountRequest ==
  \/ \E u \in Usernames \cup {"root", ""}, url \in ProfileURLs \cup {BadURL, ""}, p \in {"pw1", ""} :
       Register(u, url, p)
  \/ \E a \in AuthHeaders, id \in UserIds, b \in ApprovalBodies \cup {NoBody} : UpdateUser(a, id, b)
  \/ \E a \in AuthHeaders, id \in UserIds : DeleteUser(a, id)
  \/ \E a \in AuthHeaders, o \in Passwords \cup {""}, n \in Passwords : ChangePassword(a, o, n)

NextAccounts ==
  \/ resp = Idle /\ AccountRequest /\ UNCHANGED inbox
  \/ Respond

SpecAccounts == InitAccounts /\ [][NextAccounts]_vars

\* ------------------------------------------- SpecDeletion: account deletion
\* alice and bob have registered, been approved and logged in; they ask for
\* deletion, admins delete accounts, and the names are registered again
AliceURL == "https://www.scribblehub.com/profile/1/alice"

BobURL == "https://www.scribblehub.com/profile/2/bob"

AliceToken == [id |-> 2, username |-> "alice", role |-> "user", jti |-> -1]

BobToken == [id |-> 3, username |-> "bob", role |-> "user", jti |-> -2]

InitDeletion ==
  /\ db = [InitDB EXCEPT !.users =
             (2 :> [newUser("alice", AliceURL, "pw1") EXCEPT !.approved = TRUE])
             @@ (3 :> [newUser("bob", BobURL, "pw1") EXCEPT !.approved = TRUE])
             @@ SeedUsers]
  /\ tokens = {RootToken, AliceToken, BobToken}
  /\ expired = {}
  /\ nextJti = 1
  /\ resp = Idle
  /\ approvedByAdmin = {2, 3}
  /\ router = "users"
  /\ calls = <<>>
  /\ clock = 1
  /\ notifier = "collect"
  /\ inbox = {}

DeletionRequest ==
  \/ Register("alice", AliceURL, "pw1")
  \/ Register("bob", BobURL, "pw1")
  \/ \E a \in AuthHeaders, id \in UserIds : DeleteUser(a, id)
  \/ \E a \in AuthHeaders : GetDeleteRequests(a)
  \/ \E a \in AuthHeaders, r \in {"", "bye"} : DeleteRequest(a, r)

NextDeletion ==
  \/ resp = Idle /\ DeletionRequest /\ UNCHANGED inbox
  \/ Respond

SpecDeletion == InitDeletion /\ [][NextDeletion]_vars

\* ------------------------------------------------ SpecReports: the reports
\* One of the two report routers is exercised per behaviour (no handler
\* touches both collections).  root (admin) and alice (user) are logged in;
\* bob has logged out, so his token is revoked.
AliceAuth == [kind |-> "bearer", tok |-> AliceToken]

BobAuth == [kind |-> "bearer", tok |-> BobToken]

InitReports ==
  /\ db = [InitDB EXCEPT !.users =
             (2 :> [newUser("alice", AliceURL, "pw1") EXCEPT !.approved = TRUE])
             @@ (3 :> [newUser("bob", BobURL, "pw1") EXCEPT !.approved = TRUE])
             @@ SeedUsers,
                         !.blockedTokens = (BobToken.jti :> [blocked |-> TRUE])]
  /\ tokens = {RootToken, AliceToken, BobToken}
  /\ expired = {}
  /\ nextJti = 1
  /\ resp = Idle
  /\ approvedByAdmin = {2, 3}
  /\ router \in {"works", "profiles"}
  /\ calls = <<>>
  /\ clock = 1
  /\ notifier = "collect"
  /\ inbox = {}

ReportAuth == {NoAuth, RootAuth, AliceAuth, BobAuth}

ReportIds == 1 .. MaxReports + 1

StatusBodies(name) ==
  {[status |-> st] : st \in {"pending_review", "in_progress", "bogus",
                              IF name = "works" THEN "taken_down" ELSE "false_positive"}}
    \cup {NoBody}

StatusPatches ==
  {NoBody, [reason |-> "r"], [approved |-> FALSE], [approved |-> TRUE],
   [status |-> "in_progress"], [status |-> "bogus"],
   [reason |-> "r", status |-> "pending_review"]}

ReportRequest(name) ==
  \/ \E a \in {NoAuth, AliceAuth}, u \in ReportURLs(name) : Create(name, a, [url |-> u])
  \/ Create(name, AliceAuth, [url |-> AnyURL(name), reporter |-> "mallory"])
  \/ ListAll(name)
  \/ \E a \in ReportAuth, id \in ReportIds, b \in StatusBodies(name) : UpdateStatus(name, a, id, b)
  \/ \E a \in ReportAuth, id \in ReportIds : Approve(name, a, id)
  \/ \E a \in ReportAuth, id \in ReportIds : DeleteReport(name, a, id)
  \/ \E a \in ReportAuth, id \in ReportIds, b \in StatusPatches : UpdateFields(name, a, id, b)

NextReports ==
  \/ resp = Idle /\ UNCHANGED inbox /\ \E name \in {"works", "profiles"} : ReportRequest(name)
  \/ Respond

SpecReports == InitReports /\ [][NextReports]_vars

\* --------------------------------------------------- SpecUrls: report URLs
\* submissions with missing, blank, padded, invalid and duplicate URLs, and
\* field updates that write url
UrlBodies(name) ==
  {[url |-> u] : u \in ReportURLs(name) \cup {"", "  ", BadReportURL(name)}
                       \cup {Padded(v) : v \in ReportURLs(name)}}
    \cup {NoBody}

UrlPatches(name) ==
  {[url |-> u] : u \in ReportURLs(name) \cup {BadReportURL(name), Padded(AnyURL(name))}}
    \cup {NoBody}

UrlRequest(name) ==
  \/ \E a \in {NoAuth, AliceAuth}, b \in UrlBodies(name) : Create(name, a, b)
  \/ ListAll(name)
  \/ \E id \in ReportIds : UpdateStatus(name, AliceAuth, id, [status |-> "in_progress"])
  \/ \E id \in ReportIds : Approve(name, AliceAuth, id)
  \/ \E a \in ReportAuth, id \in ReportIds : DeleteReport(name, a, id)
  \/ \E a \in ReportAuth, id \in ReportIds, b \in UrlPatches(name) : UpdateFields(name, a, id, b)

NextUrls ==
  \/ resp = Idle /\ UNCHANGED inbox /\ \E name \in {"works", "profiles"} : UrlRequest(name)
  \/ Respond

SpecUrls == InitReports /\ [][NextUrls]_vars

\* ------------------------------------------- SpecAdmin: the admin-only routes
\* every route that checks the caller's role, called by an admin, by a user,
\* with a revoked token and without a token.  The routes of one router touch
\* no collection of another, so a run stays with the router picked at the
\* start.
WebhookBodies ==
  {[url |-> u] : u \in WebhookURLs \cup {BadWebhookURL}}
    \cup {[url |-> u, name |-> "mods"] : u \in WebhookURLs} \cup {NoBody}

WebhookIds == 1 .. Cardinality(WebhookURLs) + 1

InitAdmin ==
  /\ db = [InitDB EXCEPT !.users =
             (2 :> [newUser("alice", AliceURL, "pw1") EXCEPT !.approved = TRUE])
             @@ (3 :> [newUser("bob", BobURL, "pw1") EXCEPT !.approved = TRUE])
             @@ SeedUsers,
                         !.blockedTokens = (BobToken.jti :> [blocked |-> TRUE])]
  /\ tokens = {RootToken, AliceToken, BobToken}
  /\ expired = {}
  /\ nextJti = 1
  /\ resp = Idle
  /\ approvedByAdmin = {2, 3}
  /\ router \in {"users", "webhooks", "works", "profiles"}
  /\ calls = <<>>
  /\ clock = 1
  /\ notifier = "collect"
  /\ inbox = {}

AdminRequest ==
  \/ router = "users" /\ \E a \in ReportAuth : GetUsers(a)
  \/ router = "users" /\ \E a \in ReportAuth, id \in UserIds, b \in ApprovalBodies : UpdateUser(a, id, b)
  \/ router = "users" /\ \E a \in ReportAuth, id \in UserIds : DeleteUser(a, id)
  \/ router = "webhooks" /\ \E a \in ReportAuth : GetWebhooks(a)
  \/ router = "webhooks" /\ \E a \in ReportAuth, b \in WebhookBodies : CreateWebhook(a, b)
  \/ router = "webhooks" /\ \E a \in ReportAuth, id \in WebhookIds : DeleteWebhook(a, id)
  \/ \E name \in {"works", "profiles"} : \E u \in ReportURLs(name) : Create(name, NoAuth, [url |-> u])
  \/ \E name \in {"works", "profiles"}, a \in ReportAuth, id \in ReportIds : DeleteReport(name, a, id)

NextAdmin ==
  \/ resp = Idle /\ AdminRequest /\ UNCHANGED inbox
  \/ Respond

SpecAdmin == InitAdmin /\ [][NextAdmin]_vars

\* ------------------------------------- SpecOptional: the optional-auth check
\* requests with every kind of Authorization header, while tokens are
\* issued, logged out and expire
OptionalRequest ==
  \/ \E a \in AuthHeaders : OptionalAuth(a)
  \/ \E u \in {"root", "alice"} : Login(u, "pw1")
  \/ \E a \in AuthHeaders : Logout(a)
  \/ \E t \in tokens : Expire(t)

NextOptional ==
  \/ resp = Idle /\ OptionalRequest /\ UNCHANGED inbox
  \/ Respond

SpecOptional == InitDeletion /\ [][NextOptional]_vars

\* ------------------------------------ SpecNotify: webhook notifications
\* an admin registers and removes webhooks while profile operations notify
\* them; each delivery ends with any outcome, in any order, or never
InitNotify ==
  /\ db = [InitDB EXCEPT !.users =
             (2 :> [newUser("alice", AliceURL, "pw1") EXCEPT !.approved = TRUE])
             @@ SeedUsers]
  /\ tokens = {RootToken, AliceToken}
  /\ expired = {}
  /\ nextJti = 1
  /\ resp = Idle
  /\ approvedByAdmin = {2}
  /\ router = "profiles"
  /\ calls = <<>>
  /\ clock = 1
  /\ notifier \in Revisions
  /\ inbox = {}

NotifyRequest ==
  \/ \E u \in WebhookURLs : CreateWebhook(RootAuth, [url |-> u])
  \/ \E id \in WebhookIds : DeleteWebhook(RootAuth, id)
  \/ Create("profiles", NoAuth, [url |-> AnyURL("profiles")])
  \/ UpdateStatus("profiles", AliceAuth, 1, [status |-> "in_progress"])

NextNotify ==
  \/ resp = Idle /\ NotifyRequest /\ UNCHANGED inbox
  \/ Delivery
  \/ Respond

SpecNotify == InitNotify /\ [][NextNotify]_vars

\* the response of a handler that has run is sent
FairNotify == SpecNotify /\ WF_vars(Respond)

\* ------------------------------------------ SpecRace: concurrent requests
\* Several requests on the profiles collection are received before any of
\* them is handled.  Node runs one handler at a time, and a report handler
\* has no await between its getDatabase and its setDatabase, so a handler is
\* one step here.
RaceRequests ==
  {[op |-> "create", id |-> -1, body |-> [url |-> u]] : u \in ProfileURLs}
    \cup {[op |-> "updateStatus", id |-> 1, body |-> [status |-> st]] :
            st \in {"in_progress", "false_positive"}}
    \cup {[op |-> "updateStatus", id |-> 2, body |-> [status |-> "in_progress"]],
          [op |-> "updateFields", id |-> 1, body |-> [reason |-> "spam"]]}

Received == {[op |-> r.op, id |-> r.id, body |-> r.body] : r \in inbox}

Pending == {r \in inbox : r.code = 0}

\* the request reaches the server while others wait for their handler
Arrive(q) ==
  /\ q \notin Received
  /\ Cardinality(Pending) < MaxPending
  /\ inbox' = inbox \cup {[op |-> q.op, id |-> q.id, body |-> q.body, seen |-> db, code |-> 0]}
  /\ UNCHANGED <<db, tokens, expired, nextJti, resp, approvedByAdmin, router, notifierVars>>

\* the handler of a waiting request runs, from its first line to res.json
Handle(r) ==
  /\ r \in Pending
  /\ resp = Idle
  /\ IF r.op = "create" THEN Create("profiles", AliceAuth, r.body)
     ELSE IF r.op = "updateStatus" THEN UpdateStatus("profiles", AliceAuth, r.id, r.body)
     ELSE UpdateFields("profiles", AliceAuth, r.id, r.body)
  /\ inbox' = (inbox \ {r}) \cup {[r EXCEPT !.code = resp'.code]}

NextRace ==
  \/ \E q \in RaceRequests : Arrive(q)
  \/ \E r \in inbox : Handle(r)
  \/ Respond

SpecRace == InitNotify /\ [][NextRace]_vars

\* --------------------------------------- SpecGated: non-admin report calls
\* every report operation, called without a token, with a valid token of a
\* user whose role is not admin, or with a logged-out token
GatedAuth == {NoAuth, AliceAuth, BobAuth}

GatedRequest(name) ==
  \/ \E a \in {NoAuth, AliceAuth}, u \in ReportURLs(name) : Create(name, a, [url |-> u])
  \/ ListAll(name)
  \/ \E a \in GatedAuth, id \in ReportIds, b \in StatusBodies(name) : UpdateStatus(name, a, id, b)
  \/ \E a \in GatedAuth, id \in ReportIds : Approve(name, a, id)
  \/ \E a \in GatedAuth, id \in ReportIds : DeleteReport(name, a, id)
  \/ \E a \in GatedAuth, id \in ReportIds, b \in StatusPatches : UpdateFields(name, a, id, b)

NextGated ==
  \/ resp = Idle /\ UNCHANGED inbox /\ \E name \in {"works", "profiles"} : GatedRequest(name)
  \/ Respond

SpecGated == InitReports /\ [][NextGated]_vars

\* ------------------------------------------------- SpecIds: keys and ids
\* reports addressed by collection key (status, approve) and by id field
\* (update, delete), with patches that name the id field
IdPatches == {[id |-> n] : n \in ReportIds} \cup {[reason |-> "r"], NoBody}

IdRequest(name) ==
  \/ \E u \in ReportURLs(name) : Create(name, NoAuth, [url |-> u])
  \/ \E id \in ReportIds : UpdateStatus(name, AliceAuth, id, [status |-> "in_progress"])
  \/ \E id \in ReportIds : Approve(name, AliceAuth, id)
  \/ \E id \in ReportIds : DeleteReport(name, RootAuth, id)
  \/ \E a \in {AliceAuth, RootAuth}, id \in ReportIds, b \in IdPatches :
       UpdateFields(name, a, id, b)

NextIds ==
  \/ resp = Idle /\ UNCHANGED inbox /\ \E name \in {"works", "profiles"} : IdRequest(name)
  \/ Respond

SpecIds == InitReports /\ [][NextIds]_vars

\* ================================================================ properties
\* the request just handled went through verifyToken
Authenticated(r) == r.op \in {"logout", "getUsers", "updateUser", "deleteUser", "getDeleteRequests",
                              "getProfile", "changePassword", "deleteRequest",
                              "updateStatus", "approve", "delete", "updateFields"}

\* C1: after a successful logout with token T, every later request that
\* presents T to a route behind verifyToken is rejected with 403 and leaves
\* every collection unchanged; while T's signature and expiry are still
\* valid the rejection is "token revoked".  Stated step by step: a successful
\* logout leaves T's jti in blockedTokens, no step removes a jti from
\* blockedTokens, and a request presenting a blocked jti is rejected.
C1_LogoutBlocks ==
  (resp'.op = "logout" /\ resp'.code = 200) => Has(db'.blockedTokens, resp'.auth.tok.jti)

C1_BlockedStays == Keys(db.blockedTokens) \subseteq Keys(db'.blockedTokens)

C1_BlockedRejected ==
  (/\ Authenticated(resp')
   /\ resp'.auth.kind = "bearer"
   /\ Has(db.blockedTokens, resp'.auth.tok.jti))
  => /\ resp'.code = 403
     /\ db' = db
     /\ (resp'.auth.tok.jti \notin expired => resp'.error = "tokenRevoked")

C1_RevokedTokenRejected == [][C1_LogoutBlocks /\ C1_BlockedStays /\ C1_BlockedRejected]_vars

\* an admin request with a token that was logged out and has not expired is
\* answered "token revoked"
C1_Witness ==
  /\ resp.op = "updateUser"
  /\ resp.error = "tokenRevoked"
  /\ resp.auth.tok.role = "admin"
  /\ resp.auth.tok.jti \notin expired

\* C2: a user created by register obtains a token only after an admin's
\* PUT /users/:id set approved to true for that account; before that, login
\* for the account answers 401 or 403, 403 when the password is right, and
\* issues no token.
C2_LoginAfterApproval ==
  (resp'.op = "login" /\ resp'.code = 200)
  => (resp'.token.id \in SeedIds \/ resp'.token.id \in approvedByAdmin)

C2_LoginBeforeApproval ==
  \A id \in Keys(db.users) \ (SeedIds \cup approvedByAdmin) :
    (resp'.op = "login" /\ resp'.body.username = db.users[id].username)
    => /\ resp'.code \in {401, 403}
       /\ (db.users[id].password = <<"bcrypt", resp'.body.password>> => resp'.code = 403)
       /\ resp'.token = NoTok
       /\ tokens' = tokens

C2_NoTokenBeforeApproval == [][C2_LoginAfterApproval /\ C2_LoginBeforeApproval]_vars

\* a registered user, approved by an admin, has logged in
C2_Witness ==
  /\ resp.op = "login"
  /\ resp.code = 200
  /\ resp.token.role = "user"
  /\ resp.token.id \in approvedByAdmin

\* a registered user with the right password is refused before approval
C2_WitnessRefused ==
  /\ resp.op = "login"
  /\ resp.code = 403

\* C4: no step removes an account whose role is admin.  DELETE /users/:id
\* by an authenticated caller on an existing target answers 400 when the
\* target is the caller and 403 when the target is another account whose
\* role is admin, whatever the caller's role, and leaves users unchanged.
C4_AdminsKept ==
  \A id \in Keys(db.users) :
    db.users[id].role = "admin" => (Has(db'.users, id) /\ db'.users[id] = db.users[id])

C4_DeleteRefused ==
  (/\ resp'.op = "deleteUser"
   /\ verifyToken(resp'.auth).next
   /\ Has(db.users, resp'.id))
  => /\ (resp'.auth.tok.id = resp'.id => (resp'.code = 400 /\ db' = db))
     /\ ((resp'.auth.tok.id # resp'.id /\ db.users[resp'.id].role = "admin")
          => (resp'.code = 403 /\ db' = db))

C7_Collides(users, body) ==
  \E id \in Keys(users) : users[id].username = body.username
                          \/ users[id].shProfileURL = body.shProfileURL

C7_Original ==
  [][(resp'.op = "register" /\ C7_Collides(db.users, resp'.body))
       => (resp'.code = 409 /\ db'.users = db.users)]_vars

\* C7 amended: register with a username or a shProfileURL equal to that of
\* an existing user adds no user and answers 409 when the request passes
\* validation (the three fields are present and shProfileURL matches the
\* profile pattern), 400 otherwise.
C7_Valid(body) ==
  /\ body.username # ""
  /\ body.shProfileURL # ""
  /\ body.password # ""
  /\ body.shProfileURL \in {"https://www.scribblehub.com/profile/1/alice",
                            "https://www.scribblehub.com/profile/2/bob",
                            "https://www.scribblehub.com/profile/8/carol",
                            "https://www.scribblehub.com/profile/9/root"}

C7_DuplicateRegister ==
  [][(resp'.op = "register" /\ C7_Collides(db.users, resp'.body))
       => /\ db'.users = db.users
          /\ resp'.code = (IF C7_Valid(resp'.body) THEN 409 ELSE 400)]_vars

\* a register whose username is new and whose profile URL is taken got 409
C7_Witness ==
  /\ resp.op = "register"
  /\ resp.code = 409
  /\ \A u \in Values(db.users) : u.username # resp.body.username

\* C9: no two user records share a username and no two share a shProfileURL.
C9_UsersUnique ==
  \A i, j \in Keys(db.users) :
    i # j => /\ db.users[i].username # db.users[j].username
             /\ db.users[i].shProfileURL # db.users[j].shProfileURL

\* two registered accounts exist, one approved, a password was changed, and
\* a register that collides with them was just refused
C9_Witness ==
  /\ Cardinality(Keys(db.users) \ SeedIds) = 2
  /\ \E id \in Keys(db.users) \ SeedIds : db.users[id].approved
  /\ \E u \in Values(db.users) : u.password = <<"bcrypt", "pw2">>
  /\ resp.op = "register"
  /\ resp.code = 409

\* C10: a successful deletion of a non-admin user changes at most one
\* deletion request, from pending to resolved, and only a request whose
\* userId is the deleted user's id; every other request is unchanged.
C10_Changed == {k \in Keys(db.deletionRequests) :
                  db'.deletionRequests[k] # db.deletionRequests[k]}

C10_AtMostOneResolved ==
  [][(resp'.op = "deleteUser" /\ resp'.code = 200)
       => /\ Keys(db'.deletionRequests) = Keys(db.deletionRequests)
          /\ Cardinality(C10_Changed) <= 1
          /\ \A k \in C10_Changed :
               /\ db.deletionRequests[k].userId = resp'.id
               /\ db.deletionRequests[k].status = "pending"
               /\ db'.deletionRequests[k].status = "resolved"
               /\ db'.deletionRequests[k].userId = db.deletionRequests[k].userId
               /\ db'.deletionRequests[k].username = db.deletionRequests[k].username
               /\ db'.deletionRequests[k].reason = db.deletionRequests[k].reason]_vars

\* a user with a pending request was deleted while an earlier request of
\* another user stayed pending
C10_Witness ==
  /\ resp.op = "deleteUser"
  /\ resp.code = 200
  /\ \E k, m \in Keys(db.deletionRequests) :
       /\ m < k
       /\ db.deletionRequests[k].userId = resp.id
       /\ db.deletionRequests[k].status = "resolved"
       /\ db.deletionRequests[m].userId # resp.id
       /\ db.deletionRequests[m].status = "pending"

\* C3: updateFields (PUT /:id) on a stored work or profile by an
\* authenticated caller whose role is not admin is answered 403 and changes
\* nothing when the patch holds the key approved or status, and is answered
\* 200 when the patch holds neither key.
C3_NonAdminPatch ==
  /\ resp'.op = "updateFields"
  /\ verifyToken(resp'.auth).next
  /\ resp'.auth.tok.role # "admin"
  /\ \E r \in Values(db[router]) : r.id = resp'.id

C3_Step ==
  C3_NonAdminPatch
  => IF "approved" \in DOMAIN resp'.body \/ "status" \in DOMAIN resp'.body
     THEN resp'.code = 403 /\ db' = db
     ELSE resp'.code = 200

C3_ProtectedFields == [][C3_Step]_vars

\* a user's patch of approved on a stored record was refused
C3_Witness ==
  /\ resp.op = "updateFields"
  /\ resp.auth.kind = "bearer"
  /\ resp.auth.tok.role = "user"
  /\ resp.code = 403
  /\ resp.error = "unauthorizedFieldUpdate"
  /\ "approved" \in DOMAIN resp.body
  /\ \E r \in Values(db[router]) : r.id = resp.id

\* a user's patch without approved and status was applied
C3_WitnessApplied ==
  /\ resp.op = "updateFields"
  /\ resp.auth.kind = "bearer"
  /\ resp.auth.tok.role = "user"
  /\ resp.code = 200
  /\ resp.body = [reason |-> "r"]
  /\ \E r \in Values(db[router]) : r.id = resp.id /\ r.reason = "r"

\* C5: after every successful updateStatus or approve on a work or profile
\* the record has approved = true, whatever its approved value and status
\* were before and whatever valid status was given.
C5_ApprovedAfterTransition ==
  (resp.op \in {"updateStatus", "approve"} /\ resp.code = 200)
  => /\ Has(db[router], resp.id)
     /\ db[router][resp.id].approved = TRUE

\* a status update on a record that was not approved and was past
\* pending_review
C5_Witness ==
  /\ resp.op = "updateStatus"
  /\ resp.code = 200
  /\ resp.old.approved = FALSE
  /\ resp.old.status = "in_progress"
  /\ resp.body.status = "pending_review"
  /\ db[router][resp.id].status = "pending_review"
  /\ db[router][resp.id].approved = TRUE

\* C6: create (POST /) on works or profiles is answered 400 when url is
\* missing, empty or fails the collection's pattern, and 409 when the url
\* passes these checks and its trimmed value equals the url of a stored
\* record; a rejected create changes nothing, and an accepted one stores
\* the trimmed url, so a second submission of the same valid URL is
\* answered 409.
C6_Submitted == IF "url" \in DOMAIN resp'.body THEN trim(resp'.body.url) ELSE ""

C6_Step ==
  resp'.op = "create"
  => /\ (C6_Submitted = "" \/ ~urlPattern(router, C6_Submitted))
          => (resp'.code = 400 /\ db' = db)
     /\ (/\ C6_Submitted # ""
         /\ urlPattern(router, C6_Submitted)
         /\ \E r \in Values(db[router]) : r.url = C6_Submitted)
          => (resp'.code = 409 /\ db' = db)
     /\ resp'.code \in {400, 409} => db' = db
     /\ resp'.code \notin {400, 409}
          => /\ resp'.code = 201
             /\ \E r \in Values(db'[router]) : r.url = C6_Submitted

C6_CreateRejections == [][C6_Step]_vars

\* a padded copy of a stored URL was submitted and refused as a duplicate
C6_Witness ==
  /\ resp.op = "create"
  /\ resp.code = 409
  /\ \E r \in Values(db[router]) : resp.body.url = Padded(r.url)

\* an invalid URL was refused while a record stores that same URL
C6_WitnessInvalid ==
  /\ resp.op = "create"
  /\ resp.code = 400
  /\ resp.error = invalidUrl(router)
  /\ \E r \in Values(db[router]) : r.url = resp.body.url

\* C8: no two records of works share a url, and no two records of profiles
\* share a url.
C8_UrlsUnique ==
  \A name \in {"works", "profiles"} :
    \A k1, k2 \in Keys(db[name]) :
      k1 # k2 => db[name][k1].url # db[name][k2].url

\* C11: every admin-only operation (user listing, user approval update, user
\* deletion, webhook list, create and delete, work deletion, profile
\* deletion) called by an authenticated caller whose role is not admin is
\* answered 403 and changes no collection.
C11_AdminOps == {"getUsers", "updateUser", "deleteUser", "getWebhooks", "createWebhook",
                 "deleteWebhook", "delete"}

C11_RoleGate ==
  [][(/\ resp'.op \in C11_AdminOps
      /\ verifyToken(resp'.auth).next
      /\ resp'.auth.tok.role # "admin")
     => (resp'.code = 403 /\ db' = db)]_vars

\* C12: the optional-auth check never rejects a request.  With no header, a
\* malformed header, a token that fails verification or has expired, or a
\* token whose jti is blocked, the request proceeds with no caller identity;
\* the identity of the token is attached exactly when the token verifies and
\* its jti is not blocked.
C12_Verifies(auth) ==
  /\ auth.kind = "bearer"
  /\ auth.tok \in tokens
  /\ auth.tok.jti \notin expired
  /\ auth.tok.jti \notin DOMAIN db.blockedTokens

C12_Step ==
  resp'.op = "optionalAuth"
  => /\ resp'.code = 0
     /\ resp'.event = "next"
     /\ db' = db
     /\ resp'.token = IF C12_Verifies(resp'.auth) THEN resp'.auth.tok ELSE NoTok

C12_NeverRejects == [][C12_Step]_vars

\* a request with a logged-out token went on without an identity
C12_Witness ==
  /\ resp.op = "optionalAuth"
  /\ resp.auth.kind = "bearer"
  /\ resp.auth.tok.jti \in DOMAIN db.blockedTokens
  /\ resp.auth.tok.jti \notin expired
  /\ resp.event = "next"
  /\ resp.token = NoTok

\* a request with a valid token went on with the token's identity
C12_WitnessAttached ==
  /\ resp.op = "optionalAuth"
  /\ resp.event = "next"
  /\ resp.token # NoTok
  /\ resp.token = resp.auth.tok

\* C13: the reporter stored by a successful create on a work or profile is
\* the caller's username when the request carries a valid token that is not
\* revoked, and "Anonymous" otherwise.
C13_Step ==
  (resp'.op = "create" /\ resp'.code = 201)
  => db'[router][resp'.id].reporter =
       IF C12_Verifies(resp'.auth) THEN resp'.auth.tok.username ELSE "Anonymous"

C13_Reporter == [][C13_Step]_vars

\* C14: listAll (GET /) on works or profiles sets approved to true on exactly
\* the records with approved = false and a status other than pending_review,
\* and stores every other record unchanged; a pending_review record that is
\* not approved stays unapproved.
C14_Step ==
  resp'.op = "listAll"
  => db' = [db EXCEPT ![router] =
              [k \in DOMAIN db[router] |->
                 IF db[router][k].approved = FALSE /\ db[router][k].status # "pending_review"
                 THEN [db[router][k] EXCEPT !.approved = TRUE]
                 ELSE db[router][k]]]

C14_ListAllCoercion == [][C14_Step]_vars

\* C18: a successful create gives the new report the id max(existing keys)
\* + 1, or 1 when the collection is empty, stores it under that key, and
\* leaves every record already in the collection as it was.
C18_Step ==
  (resp'.op = "create" /\ resp'.code = 201)
  => LET keys == DOMAIN db[router]
         n == IF keys = {} THEN 1 ELSE (CHOOSE k \in keys : \A j \in keys : j <= k) + 1
     IN /\ resp'.id = n
        /\ n \notin keys
        /\ DOMAIN db'[router] = keys \cup {n}
        /\ db'[router][n].id = n
        /\ \A k \in keys : db'[router][k] = db[router][k]

C18_CreateId == [][C18_Step]_vars

\* a create into a collection whose lowest id was deleted: the new id is
\* past the highest key, not the number of records plus one
C18_Witness ==
  /\ resp.op = "create"
  /\ resp.code = 201
  /\ resp.id = 3
  /\ DOMAIN db[router] = {2, 3}

\* C19: every successful create, updateStatus, approve, updateFields and
\* delete on a work or a profile makes one notify call with the matching
\* event type (work_ or profile_ followed by created, updated or deleted),
\* and an operation that fails makes none.
C19_Kind(op) == IF op = "create" THEN "created" ELSE IF op = "delete" THEN "deleted" ELSE "updated"

C19_Step ==
  resp'.op \in {"create", "updateStatus", "approve", "updateFields", "delete"}
  => resp'.event = IF resp'.code \in {200, 201}
                   THEN (IF router = "works" THEN "work_" ELSE "profile_") \o C19_Kind(resp'.op)
                   ELSE "none"

C19_NotifyPerOperation == [][C19_Step]_vars

\* C15: notify attempts one delivery to every registered webhook; a delivery
\* that settles, with a failure or not, leaves every other delivery of every
\* call as it is (still awaited, or with the outcome it had); and no call is
\* ever rejected, whatever the outcomes are.
C15_Attempts(call) == call.pending \cup call.ok \cup call.logged

C15_Call ==
  Len(calls') = Len(calls) + 1
  => LET call == calls'[Len(calls')]
     IN /\ {d.id : d \in call.pending} = DOMAIN db'.webhooks
        /\ Cardinality(call.pending) = Cardinality(DOMAIN db'.webhooks)
        /\ \A d \in call.pending : d.url = db'.webhooks[d.id].url
        /\ call.ok = {} /\ call.logged = {}
        /\ \A c \in 1 .. Len(calls) : calls'[c] = calls[c]

C15_Settled ==
  (Len(calls') = Len(calls) /\ calls' # calls)
  => \E c \in 1 .. Len(calls) : \E d \in calls[c].pending :
       /\ calls'[c].pending = calls[c].pending \ {d}
       /\ calls'[c].ok \ {d} = calls[c].ok
       /\ calls'[c].logged \ {d} = calls[c].logged
       /\ C15_Attempts(calls'[c]) = C15_Attempts(calls[c])
       /\ \A o \in 1 .. Len(calls) : o # c => calls'[o] = calls[o]

C15_Step ==
  /\ C15_Call
  /\ C15_Settled
  /\ \A c \in 1 .. Len(calls') : ~calls'[c].rejected

C15_Deliveries == [][C15_Step]_vars

\* a call to two webhooks has finished: one delivery failed and was logged,
\* the other got its 2xx
C15_Witness ==
  \E c \in 1 .. Len(calls) :
    /\ calls[c].pending = {}
    /\ calls[c].ok # {}
    /\ calls[c].logged # {}
    /\ ~calls[c].rejected

\* C16: a report operation that notifies is answered without regard to the
\* deliveries: a delivery that settles, with any outcome, changes neither
\* the response nor any collection but webhooks, and a response a handler
\* has produced is eventually sent even if the deliveries never complete.
C16_Step ==
  (Len(calls') = Len(calls) /\ calls' # calls)
  => /\ resp' = resp
     /\ \A name \in DOMAIN db : name # "webhooks" => db'[name] = db[name]

C16_FireAndForget ==
  /\ [][C16_Step]_vars
  /\ (resp # Idle) ~> (resp = Idle)

\* the create was answered and its report stored while one delivery had
\* failed and another was still in flight
C16_Witness ==
  /\ resp = Idle
  /\ DOMAIN db.profiles # {}
  /\ \E c \in 1 .. Len(calls) : calls[c].pending # {} /\ calls[c].logged # {}

\* C20: notify writes nothing of a webhook registration but lastUsed, and
\* writes the lastUsed of a registration if and only if the delivery made to
\* that registration got a 2xx response: a registration whose delivery
\* failed, or to which the call made no delivery, keeps its lastUsed.
C20_Registered(d) ==
  /\ d.id \in DOMAIN db.webhooks
  /\ db.webhooks[d.id].url = d.url

C20_Frame ==
  /\ DOMAIN db'.webhooks = DOMAIN db.webhooks
  /\ \A k \in DOMAIN db.webhooks :
       db'.webhooks[k] = [db.webhooks[k] EXCEPT !.lastUsed = db'.webhooks[k].lastUsed]

C20_Settle(c) ==
  LET call == calls'[c]
      settled == calls[c].pending \ call.pending
      \* the deliveries whose outcome takes effect in this step
      effective == IF notifier = "each" THEN settled \cap call.ok
                   ELSE IF call.pending = {} THEN call.ok ELSE {}
      timestamp == IF notifier = "each" THEN clock ELSE call.now
  IN /\ C20_Frame
     /\ \A k \in DOMAIN db.webhooks :
          IF \E d \in effective : d.id = k /\ C20_Registered(d)
          THEN db'.webhooks[k].lastUsed = timestamp
          ELSE db'.webhooks[k].lastUsed = db.webhooks[k].lastUsed

C20_Step ==
  (Len(calls') = Len(calls) /\ calls' # calls)
  => \E c \in 1 .. Len(calls) : calls'[c] # calls[c] /\ C20_Settle(c)

C20_LastUsed == [][C20_Step]_vars

\* C17: requests on the same collection that wait together are handled one
\* at a time, each handler reading, changing and writing the collection in
\* one synchronous run: a handler's write keeps every record and field it
\* does not change as the handlers before it left them, so no request's
\* change is lost to a concurrent one, although nothing locks the collection.
C17_Handled(r) == r \in Pending /\ [r EXCEPT !.code = resp'.code] \in inbox'

C17_Target(r) == IF r.op = "create" THEN resp'.id ELSE r.id

C17_Written(r) ==
  IF r.op = "updateStatus" THEN {"status", "approved"}
  ELSE IF r.op = "updateFields" THEN DOMAIN r.body
  ELSE {"id", "url", "status", "reporter", "reason", "approved"}

\* what the handler of r leaves of the collection `before`
C17_Keeps(r, before) ==
  /\ DOMAIN db'.profiles = DOMAIN before \cup (IF resp'.code \in {200, 201} THEN {C17_Target(r)} ELSE {})
  /\ \A k \in DOMAIN before :
       \A f \in DOMAIN before[k] :
         (resp'.code \in {200, 201} /\ k = C17_Target(r) /\ f \in C17_Written(r))
           \/ db'.profiles[k][f] = before[k][f]

C17_Step == \A r \in inbox : C17_Handled(r) => C17_Keeps(r, db.profiles)

C17_Stored(r) ==
  IF r.op = "create" THEN \E k \in DOMAIN db.profiles : db.profiles[k].url = r.body.url
  ELSE /\ r.id \in DOMAIN db.profiles
       /\ \/ \A f \in DOMAIN r.body : db.profiles[r.id][f] = r.body[f]
          \/ \E o \in inbox : o # r /\ o.op = r.op /\ o.id = r.id /\ o.code = 200

C17_Kept == \A r \in inbox : r.code \in {200, 201} => C17_Stored(r)

C17_OriginalStep == \A r \in inbox : C17_Handled(r) => C17_Keeps(r, r.seen.profiles)

C21_Step ==
  (resp'.op = "approve" /\ resp'.code \notin {401, 403})
  => LET reports == db[router]
         id == resp'.id
     IN IF id \in DOMAIN reports
        THEN /\ resp'.code = 200
             /\ db'[router] = [reports EXCEPT ![id].approved = TRUE,
                                              ![id].status = "in_progress"]
        ELSE /\ resp'.code = 404
             /\ db' = db

C21_Approve == [][C21_Step]_vars

\* a report whose review had ended was approved and is in_progress again
C21_Witness ==
  /\ resp.op = "approve"
  /\ resp.code = 200
  /\ resp.old.status \in {"taken_down", "false_positive"}
  /\ db[router][resp.id].status = "in_progress"
  /\ db[router][resp.id].approved = TRUE

\* an approve for an id the collection does not have was answered 404
C21_WitnessAbsent ==
  /\ resp.op = "approve"
  /\ resp.code = 404
  /\ DOMAIN db[router] # {}

\* C22 as stated: an authenticated updateStatus answers 404 whenever the id
\* is absent, whatever the status, and 400 whenever the id is present and
\* the status is outside the collection's set; a failure leaves the
\* collection unchanged.
C22_Valid(body) ==
  /\ "status" \in DOMAIN body
  /\ body.status \in (IF router = "works"
                      THEN {"pending_review", "in_progress", "confirmed", "taken_down", "original"}
                      ELSE {"pending_review", "in_progress", "confirmed_violator",
                            "false_positive"})

C22_OriginalStep ==
  (resp'.op = "updateStatus" /\ resp'.code \notin {401, 403})
  => /\ resp'.id \notin DOMAIN db[router] => resp'.code = 404
     /\ (resp'.id \in DOMAIN db[router] /\ ~C22_Valid(resp'.body)) => resp'.code = 400
     /\ resp'.code # 200 => db' = db

C22_Original == [][C22_OriginalStep]_vars

\* C22 amended: an authenticated updateStatus answers 400 whenever the
\* status is missing or outside the collection's set, whether or not the id
\* is present, and 404 when the status is valid and the id is absent; a
\* failure leaves the collection unchanged.
C22_Step ==
  (resp'.op = "updateStatus" /\ resp'.code \notin {401, 403})
  => /\ resp'.code = IF ~C22_Valid(resp'.body) THEN 400
                     ELSE IF resp'.id \notin DOMAIN db[router] THEN 404
                     ELSE 200
     /\ resp'.code # 200 => db' = db

C22_UpdateStatusErrors == [][C22_Step]_vars

\* an invalid status for an id the collection does not have was answered 400
C22_Witness ==
  /\ resp.op = "updateStatus"
  /\ resp.code = 400
  /\ resp.body # NoBody
  /\ resp.id \notin DOMAIN db[router]
  /\ DOMAIN db[router] # {}

\* a valid status for an absent id was answered 404
C22_WitnessAbsent ==
  /\ resp.op = "updateStatus"
  /\ resp.code = 404
  /\ resp.id \notin DOMAIN db[router]

\* C23: as long as no admin calls the report routes, every stored work and
\* profile is approved or has the status pending_review.
C23_Consistent ==
  \A k \in DOMAIN db[router] :
    db[router][k].approved = TRUE \/ db[router][k].status = "pending_review"

\* a non-admin's patch of approved was refused on a report that is approved
\* and past pending_review, next to a report still awaiting review
C23_Witness ==
  /\ resp.op = "updateFields"
  /\ resp.code = 403
  /\ "approved" \in DOMAIN resp.body
  /\ resp.id \in DOMAIN db[router]
  /\ db[router][resp.id].approved = TRUE
  /\ db[router][resp.id].status # "pending_review"
  /\ \E k \in DOMAIN db[router] : db[router][k].approved = FALSE

\* C24: the status of every stored work is one of pending_review,
\* in_progress, confirmed, taken_down, original, and the status of every
\* stored profile is one of pending_review, in_progress,
\* confirmed_violator, false_positive.
C24_StatusValid ==
  /\ \A k \in DOMAIN db.works :
       db.works[k].status \in {"pending_review", "in_progress", "confirmed", "taken_down",
                               "original"}
  /\ \A k \in DOMAIN db.profiles :
       db.profiles[k].status \in {"pending_review", "in_progress", "confirmed_violator",
                                  "false_positive"}

\* C25: a successful updateFields(id, patch) sets exactly the keys of the
\* patch on the record with that id, leaves the record's other fields and
\* every other record unchanged, and is idempotent: the same request made
\* again finds the record and leaves the state as it is.
C25_Found(reports, id) == {k \in DOMAIN reports : reports[k].id = id}

C25_Step ==
  (resp'.op = "updateFields" /\ resp'.code = 200)
  => LET reports == db[router]
         after == db'[router]
         id == resp'.id
         patch == resp'.body
     IN \E key \in C25_Found(reports, id) :
          /\ DOMAIN after = DOMAIN reports
          /\ \A k \in DOMAIN reports : k # key => after[k] = reports[k]
          /\ DOMAIN after[key] = DOMAIN reports[key] \cup DOMAIN patch
          /\ \A f \in DOMAIN after[key] :
               after[key][f] = IF f \in DOMAIN patch THEN patch[f] ELSE reports[key][f]
          \* the same request again
          /\ C25_Found(after, id) # {}
          /\ \A again \in C25_Found(after, id) :
               \A f \in DOMAIN patch : after[again][f] = patch[f]

C25_UpdateFields == [][C25_Step]_vars

\* C30: every stored work and profile has an id field equal to the key it is
\* stored under, so a lookup by key and a lookup by id field find the same
\* record.
C30_KeyIsId ==
  \A name \in {"works", "profiles"} :
    \A k \in DOMAIN db[name] : db[name][k].id = k

\* C26: a successful POST /webhooks adds one registration under an id that
\* no registered webhook has, and leaves every webhook registered before
\* present and unchanged.
C26_Step ==
  (resp'.op = "createWebhook" /\ resp'.code = 201)
  => /\ resp'.id \notin DOMAIN db.webhooks
     /\ DOMAIN db'.webhooks = DOMAIN db.webhooks \cup {resp'.id}
     /\ \A k \in DOMAIN db.webhooks : db'.webhooks[k] = db.webhooks[k]

C26_CreateKeepsOthers == [][C26_Step]_vars

\* C27: a deletion request stored by POST /user/profile/delete-request
\* carries the username of the token that made the request.
C27_Step ==
  (resp'.op = "deleteRequest" /\ resp'.code = 200)
  => \A k \in DOMAIN db'.deletionRequests :
       (k \notin DOMAIN db.deletionRequests \/ db'.deletionRequests[k] # db.deletionRequests[k])
       => db'.deletionRequests[k].username = resp'.auth.tok.username

C27_OwnAccount == [][C27_Step]_vars

\* C28: whether verifyToken lets a request through depends on the token
\* presented and on blockedTokens alone: a request is stopped by verifyToken
\* exactly when its header is absent or malformed, its token is forged or
\* expired, or its jti is blocked.  A token whose user has been deleted or
\* set to approved = false is let through like any other.
C28_VerifyErrors == {"noToken", "invalidTokenFormat", "invalidToken", "tokenRevoked"}

C28_Acceptable(auth) ==
  /\ auth.kind = "bearer"
  /\ auth.tok.jti \notin expired
  /\ auth.tok.jti \notin DOMAIN db.blockedTokens

C28_Step ==
  Authenticated(resp')
  => (resp'.error \in C28_VerifyErrors <=> ~C28_Acceptable(resp'.auth))

C28_TokenOnly == [][C28_Step]_vars

\* a request made with the token of a deleted user passed verifyToken
C28_Witness ==
  /\ Authenticated(resp)
  /\ resp.auth.kind = "bearer"
  /\ resp.auth.tok.id \notin DOMAIN db.users
  /\ resp.error \notin C28_VerifyErrors

\* a request made with the token of a user set to approved = false passed
C28_WitnessUnapproved ==
  /\ Authenticated(resp)
  /\ resp.auth.kind = "bearer"
  /\ resp.auth.tok.id \in DOMAIN db.users
  /\ db.users[resp.auth.tok.id].approved = FALSE
  /\ resp.op # "updateUser"
  /\ resp.error \notin C28_VerifyErrors

\* C29: a delivery that settles, the last one of its call included, writes
\* nothing of the webhooks collection but lastUsed values: a registration
\* deleted while the call was in flight stays deleted, one created in the
\* meantime stays registered, and url, name and createdBy stay as they are.
C29_Step ==
  (Len(calls') = Len(calls) /\ calls' # calls)
  => /\ DOMAIN db'.webhooks = DOMAIN db.webhooks
     /\ \A k \in DOMAIN db.webhooks :
          \A f \in DOMAIN db.webhooks[k] :
            f # "lastUsed" => db'.webhooks[k][f] = db.webhooks[k][f]

C29_WitnessCreated ==
  \E c \in 1 .. Len(calls) :
    /\ calls[c].pending = {}
    /\ calls[c].ok # {}
    /\ \E k \in DOMAIN db.webhooks :
         \A d \in C15_Attempts(calls[c]) : d.url # db.webhooks[k].url

====
